---------------------------- MODULE Spec2Model ----------------------------
(***************************************************************************)
(* Model of ProBowler-backend/model/EnhancedCricketBiomechanicsExtractor.py *)
(* (class EnhancedCricketBiomechanicsExtractor) and of analyze_bowling in   *)
(* ProBowler-backend/model/analyze.py.                                     *)
(*                                                                         *)
(* Representation.                                                         *)
(*  - The landmarks DataFrame self.df is a sequence of rows.  A row is     *)
(*    [frame |-> n, lm |-> f] where f maps every landmark whose columns    *)
(*    exist in the DataFrame to its <<x, y>> cells, each an integer or NaN *)
(*    (a landmark that was not detected has both cells NaN).               *)
(*    A landmark outside DOMAIN f has no columns at all: row["L_x"] raises *)
(*    KeyError and row.get("L_x", d) yields d.                             *)
(*  - DataFrame positions (iloc) are 0-based as in the source: iloc(df, k) *)
(*    is df[k + 1].                                                        *)
(*  - Coordinates are integers on a small grid.  Angle values are integers *)
(*    in units of 1/10000 degree, so that 45 degrees = 450000 and the      *)
(*    57.2958 scale of Shoulder Alignment is the integer 572958.           *)
(*  - TLC compares only values of one kind, so numpy nan and Python None   *)
(*    are two reserved integers, NaN and None, that no coordinate, angle   *)
(*    or frame index takes; every computation on cells tests isnan first,  *)
(*    as IEEE arithmetic propagates nan.  A landmark that was not detected *)
(*    is the point <<NaN, NaN>>.                                           *)
(*  - raised is a string: "" when the call returned, else the exception.   *)
(***************************************************************************)
EXTENDS Integers, Sequences, FiniteSets, TLC

VARIABLES
    df,                  \* self.df
    features,            \* self.features
    ffc_frame,           \* self.ffc_frame
    ball_release_frame,  \* self.ball_release_frame
    called,              \* the method of the last call
    arg,                 \* the knee-angle series passed to the last call, <<>> if it takes none
    ret,                 \* the value returned by the last call, see NoReturn
    raised,              \* the exception the last call ended with, "" if it returned
    video_path           \* what the last analyze_bowling call was given, see AnalyzeBowling

vars == <<df, features, ffc_frame, ball_release_frame, called, arg, ret, raised, video_path>>

\* np.nan
NaN == -999999999

\* None
None == -888888888

\* raised when the call returned normally
NoError == ""

\* return None, None, None, None, None, None, None
NoPhases == <<None, None, None, None, None, None, None>>

\* The value a call returned.  kind names its Python shape and the other
\* fields hold its parts, empty where the shape has none:
\*   "None"       nothing returned (also after an exception);
\*   "extracted"  the triple (features, front_knee_angles, back_knee_angles);
\*   "empty"      the empty DataFrame of extract_features_post_ffc;
\*   "report"     the summary DataFrame, its rows in report;
\*   "phases"     the 7-tuple of a phase analyser;
\*   "result"     the mapping of analyze_bowling: status, message and, under
\*                the key "details", the summary in report.
NoReturn ==
    [kind |-> "None", features |-> <<>>, front_knee_angles |-> <<>>,
     back_knee_angles |-> <<>>, report |-> <<>>, phases |-> NoPhases,
     status |-> "", message |-> ""]

isnan(v) == v = NaN

Min(a, b) == IF a <= b THEN a ELSE b

Abs(a) == IF a < 0 THEN -a ELSE a

(***************************************************************************)
(* Bounds of the model.                                                    *)
(***************************************************************************)
\* longest DataFrame of the event-detection specification
MaxDetectLen == 13

\* most rows of such a DataFrame in which the right ankle was detected
MaxDetected == 3

\* longest DataFrame of the pipeline specification
MaxLen == 4

\* longest knee-angle series handed to the phase analysers
MaxSeries == 5

(***************************************************************************)
(* Literals of the source.                                                 *)
(***************************************************************************)
\* min(8, ...) in detect_front_foot_contact
ReleaseOffset == 8

\* mid_frame + 5 in the fallback of detect_front_foot_contact
FallbackOffset == 5

\* abs(...) * 57.2958, in units of 1/10000
ShoulderScale == 572958

\* row["RIGHT_HIP_x"] + 10: the synthetic horizontal reference point
RefOffset == 10

\* post_ffc_features.tail(3)
TailFrames == 3

\* one degree in model units
Deg == 10000

(***************************************************************************)
(* DataFrame access.                                                       *)
(***************************************************************************)
Landmarks ==
    {"NOSE", "LEFT_SHOULDER", "RIGHT_SHOULDER", "LEFT_ELBOW", "RIGHT_ELBOW",
     "LEFT_WRIST", "RIGHT_WRIST", "LEFT_HIP", "RIGHT_HIP", "LEFT_KNEE",
     "RIGHT_KNEE", "LEFT_ANKLE", "RIGHT_ANKLE", "LEFT_FOOT_INDEX",
     "RIGHT_FOOT_INDEX"}

\* self.df.iloc[k]
iloc(d, k) == d[k + 1]

\* the x / y cell of a landmark value
X(p) == p[1]

Y(p) == p[2]

\* row.get("<lm>_x", default), row.get("<lm>_y", default)
row_get(row, lm, default) ==
    IF lm \in DOMAIN row.lm THEN row.lm[lm] ELSE <<default, default>>

(***************************************************************************)
(* calculate_angle(a, b, c): the angle at b, in units of 1/10000 degree.   *)
(* A NaN coordinate propagates to a NaN result; a zero-length vector makes *)
(* the quotient 0/0 = nan (numpy warns, it does not raise).  On the        *)
(* integer grid the arccos is exact for the multiples of 45 degrees, which *)
(* are told apart by the dot and cross products; any other geometry is     *)
(* outside the modelled domain and yields "OffGrid".                       *)
(***************************************************************************)
calculate_angle(a, b, c) ==
    IF \E v \in {X(a), Y(a), X(b), Y(b), X(c), Y(c)} : isnan(v) THEN NaN
    ELSE
        LET ba == <<X(a) - X(b), Y(a) - Y(b)>>
            bc == <<X(c) - X(b), Y(c) - Y(b)>>
            dot == ba[1] * bc[1] + ba[2] * bc[2]
            cross == Abs(ba[1] * bc[2] - ba[2] * bc[1])
        IN  IF ba = <<0, 0>> \/ bc = <<0, 0>> THEN NaN
            ELSE IF cross = 0 /\ dot > 0 THEN 0
            ELSE IF cross = dot THEN 45 * Deg
            ELSE IF dot = 0 THEN 90 * Deg
            ELSE IF cross = -dot THEN 135 * Deg
            ELSE IF cross = 0 /\ dot < 0 THEN 180 * Deg
            ELSE "OffGrid"

(***************************************************************************)
(* detect_front_foot_contact                                               *)
(***************************************************************************)
\* front_ankle_y: one entry per row, row.get("RIGHT_ANKLE_y", np.nan)
front_ankle_y(d) == [i \in 1..Len(d) |-> Y(row_get(d[i], "RIGHT_ANKLE", NaN))]

\* np.where(valid_indices)[0]: the 0-based positions with a defined ankle value
ffc_candidates(y) == {k \in 0..(Len(y) - 1) : ~isnan(y[k + 1])}

\* ffc_candidates[np.argmax(front_ankle_y[valid_indices])]: np.argmax returns
\* the first position holding the maximum
ffc_frame_idx_mut(y) ==
    CHOOSE k \in ffc_candidates(y) :
        \A j \in ffc_candidates(y) : y[j + 1] > y[k + 1] \/ (y[j + 1] = y[k + 1] /\ j >= k)

ffc_frame_idx(y) ==
    CHOOSE k \in ffc_candidates(y) :
        \A j \in ffc_candidates(y) : y[j + 1] < y[k + 1] \/ (y[j + 1] = y[k + 1] /\ j >= k)

\* release_offset = min(8, len(self.df) - ffc_frame_idx - 1)
release_offset_mut(n, idx) == Min(ReleaseOffset - 1, n - idx - 1)

release_offset(n, idx) == Min(ReleaseOffset, n - idx - 1)

\* the position of the release frame when FFC comes from the ankle data
release_idx(n, idx) ==
    IF release_offset(n, idx) > 0 THEN idx + release_offset(n, idx) ELSE idx

\* mid_frame = len(self.df) // 2
mid_frame_mut(n) == (n + 1) \div 2

mid_frame(n) == n \div 2

\* min(mid_frame + 5, len(self.df) - 1)
fallback_release_idx_mut(n) == Min(mid_frame(n) + FallbackOffset, n - 1) \div 2

fallback_release_idx(n) == Min(mid_frame(n) + FallbackOffset, n - 1)

\* The outcome of detect_front_foot_contact on DataFrame d: the two fields
\* it assigns, or the exception it ends with (iloc on an empty DataFrame
\* raises IndexError before either field is assigned).
detect_front_foot_contact(d) ==
    LET y == front_ankle_y(d)
        n == Len(d)
    IN  IF ffc_candidates(y) # {}
        THEN LET idx == ffc_frame_idx(y)
             IN  [ffc_frame |-> iloc(d, idx).frame,
                  ball_release_frame |-> iloc(d, release_idx(n, idx)).frame,
                  raised |-> NoError]
        ELSE IF mid_frame(n) >= n
             THEN [ffc_frame |-> None, ball_release_frame |-> None,
                   raised |-> "IndexError"]
             ELSE [ffc_frame |-> iloc(d, mid_frame(n)).frame,
                   ball_release_frame |-> iloc(d, fallback_release_idx(n)).frame,
                   raised |-> NoError]

\* hip_shoulder_separation: computed per row with 0 defaults, kept only as a
\* diagnostic signal; it never changes the decision above
hip_shoulder_separation(d) ==
    [i \in 1..Len(d) |->
        calculate_angle(row_get(d[i], "LEFT_HIP", 0),
                        row_get(d[i], "RIGHT_SHOULDER", 0),
                        row_get(d[i], "RIGHT_HIP", 0))]

(***************************************************************************)
(* extract_features_post_ffc                                               *)
(***************************************************************************)
\* The features in the order in which the try block computes them.
FeatureOrder ==
    <<"Front Knee Angle", "Elbow Angle", "Back Knee Angle", "Trunk Lean",
      "Hip-Shoulder Separation", "Shoulder Alignment", "Bowling Arm Angle",
      "Non-Bowling Arm Angle", "Head Position", "Pelvis Rotation",
      "Front Ankle Angle", "Back Ankle Angle", "Spine Angle">>

FeatureNames == {FeatureOrder[i] : i \in 1..Len(FeatureOrder)}

\* The landmarks whose columns the computation of a feature reads with
\* row["..."], which raises KeyError for an absent column.
Requires(f) ==
    CASE f = "Front Knee Angle" -> {"RIGHT_HIP", "RIGHT_KNEE", "RIGHT_ANKLE"}
      [] f = "Elbow Angle" -> {"RIGHT_SHOULDER", "RIGHT_ELBOW", "RIGHT_WRIST"}
      [] f = "Back Knee Angle" -> {"LEFT_HIP", "LEFT_KNEE", "LEFT_ANKLE"}
      [] f = "Trunk Lean" -> {"LEFT_SHOULDER", "RIGHT_HIP", "RIGHT_KNEE"}
      [] f = "Hip-Shoulder Separation" -> {"LEFT_HIP", "RIGHT_SHOULDER", "RIGHT_HIP"}
      [] f = "Shoulder Alignment" -> {"LEFT_SHOULDER", "RIGHT_SHOULDER"}
      [] f = "Bowling Arm Angle" -> {"RIGHT_SHOULDER", "RIGHT_ELBOW", "RIGHT_WRIST"}
      [] f = "Non-Bowling Arm Angle" -> {"LEFT_SHOULDER", "LEFT_ELBOW", "LEFT_WRIST"}
      [] f = "Head Position" -> {"LEFT_SHOULDER", "NOSE", "RIGHT_SHOULDER"}
      [] f = "Pelvis Rotation" -> {"LEFT_HIP", "RIGHT_HIP"}
      [] f = "Front Ankle Angle" -> {"RIGHT_KNEE", "RIGHT_ANKLE", "RIGHT_FOOT_INDEX"}
      [] f = "Back Ankle Angle" -> {"LEFT_KNEE", "LEFT_ANKLE", "LEFT_FOOT_INDEX"}
      [] f = "Spine Angle" -> {"LEFT_HIP", "RIGHT_HIP", "LEFT_SHOULDER", "RIGHT_SHOULDER"}

\* nan-propagating arithmetic on cells
add(u, v) == IF isnan(u) \/ isnan(v) THEN NaN ELSE u + v

absdiff(u, v) == IF isnan(u) \/ isnan(v) THEN NaN ELSE Abs(u - v)

scale(u, k) == IF isnan(u) THEN NaN ELSE u * k

\* The value the try block computes for feature f of a row whose columns
\* are all present.  The two midpoints of Spine Angle are kept doubled
\* (and the reference offset with them), which leaves the angle unchanged.
feature_value(row, f) ==
    LET L(name) == row.lm[name]
    IN  CASE f = "Front Knee Angle" ->
                calculate_angle(L("RIGHT_HIP"), L("RIGHT_KNEE"), L("RIGHT_ANKLE"))
          [] f = "Elbow Angle" ->
                calculate_angle(L("RIGHT_SHOULDER"), L("RIGHT_ELBOW"), L("RIGHT_WRIST"))
          [] f = "Back Knee Angle" ->
                calculate_angle(L("LEFT_HIP"), L("LEFT_KNEE"), L("LEFT_ANKLE"))
          [] f = "Trunk Lean" ->
                calculate_angle(L("LEFT_SHOULDER"), L("RIGHT_HIP"), L("RIGHT_KNEE"))
          [] f = "Hip-Shoulder Separation" ->
                calculate_angle(L("LEFT_HIP"), L("RIGHT_SHOULDER"), L("RIGHT_HIP"))
          [] f = "Shoulder Alignment" ->
                scale(absdiff(Y(L("LEFT_SHOULDER")), Y(L("RIGHT_SHOULDER"))), ShoulderScale)
          [] f = "Bowling Arm Angle" ->
                calculate_angle(L("RIGHT_SHOULDER"), L("RIGHT_ELBOW"), L("RIGHT_WRIST"))
          [] f = "Non-Bowling Arm Angle" ->
                calculate_angle(L("LEFT_SHOULDER"), L("LEFT_ELBOW"), L("LEFT_WRIST"))
          [] f = "Head Position" ->
                calculate_angle(L("LEFT_SHOULDER"), L("NOSE"), L("RIGHT_SHOULDER"))
          [] f = "Pelvis Rotation" ->
                calculate_angle(L("LEFT_HIP"), L("RIGHT_HIP"),
                                <<add(X(L("RIGHT_HIP")), RefOffset), Y(L("RIGHT_HIP"))>>)
          [] f = "Front Ankle Angle" ->
                calculate_angle(L("RIGHT_KNEE"), L("RIGHT_ANKLE"), L("RIGHT_FOOT_INDEX"))
          [] f = "Back Ankle Angle" ->
                calculate_angle(L("LEFT_KNEE"), L("LEFT_ANKLE"), L("LEFT_FOOT_INDEX"))
          [] f = "Spine Angle" ->
                LET hip2 == <<add(X(L("LEFT_HIP")), X(L("RIGHT_HIP"))),
                              add(Y(L("LEFT_HIP")), Y(L("RIGHT_HIP")))>>
                    sh2 == <<add(X(L("LEFT_SHOULDER")), X(L("RIGHT_SHOULDER"))),
                             add(Y(L("LEFT_SHOULDER")), Y(L("RIGHT_SHOULDER")))>>
                IN  calculate_angle(hip2, sh2, <<add(sh2[1], 2 * RefOffset), sh2[2]>>)

\* TRUE iff computing the features FeatureOrder[1..k] of the row raises no
\* KeyError
computes(row, k) == \A i \in 1..k : Requires(FeatureOrder[i]) \subseteq DOMAIN row.lm

\* the try block of the row ends in the except clause
row_raises(row) == ~computes(row, Len(FeatureOrder))

\* frame_features.append({...}) of the try block
feature_record(row, ffc, rel) ==
    [k \in {"frame", "phase", "is_ball_release", "is_ffc"} \cup FeatureNames |->
        CASE k = "frame" -> row.frame
          [] k = "phase" -> "post_ffc"
          [] k = "is_ball_release" -> row.frame = rel
          [] k = "is_ffc" -> row.frame = ffc
          [] OTHER -> feature_value(row, k)]

\* frame_features.append({...}) of the except clause
nan_record(row) ==
    [k \in {"frame", "phase", "is_ball_release", "is_ffc"} \cup FeatureNames |->
        CASE k = "frame" -> row.frame
          [] k = "phase" -> "post_ffc"
          [] k = "is_ball_release" -> FALSE
          [] k = "is_ffc" -> FALSE
          [] OTHER -> NaN]

\* What one iteration of the loop appends to front_knee_angles: the entry
\* of the try block once the front-knee columns were read, and then the
\* (frame, nan) entry of the except clause if a later read raises.
front_knee_entries(row) ==
    (IF computes(row, 1)
     THEN <<<<row.frame, feature_value(row, "Front Knee Angle")>>>> ELSE <<>>)
    \o (IF row_raises(row) THEN <<<<row.frame, NaN>>>> ELSE <<>>)

\* The same for back_knee_angles, whose try-block entry is appended after
\* the front-knee, elbow and back-knee columns were read.
back_knee_entries(row) ==
    (IF computes(row, 3)
     THEN <<<<row.frame, feature_value(row, "Back Knee Angle")>>>> ELSE <<>>)
    \o (IF row_raises(row) THEN <<<<row.frame, NaN>>>> ELSE <<>>)

RECURSIVE concat_entries(_, _)
\* the concatenation of Op(row) over the rows of a sequence
concat_entries(rows, front) ==
    IF rows = <<>> THEN <<>>
    ELSE (IF front THEN front_knee_entries(Head(rows)) ELSE back_knee_entries(Head(rows)))
         \o concat_entries(Tail(rows), front)

\* self.df[self.df['frame'] >= self.ffc_frame]
post_ffc_frames(d, ffc) == SelectSeq(d, LAMBDA row : row.frame >= ffc)

\* The value extract_features_post_ffc returns once FFC is known: an empty
\* DataFrame alone when no frame is at or after FFC, else the triple
\* (features, front_knee_angles, back_knee_angles).
extract_features_post_ffc(d, ffc, rel) ==
    LET post == post_ffc_frames(d, ffc)
    IN  IF post = <<>>
        THEN [NoReturn EXCEPT !.kind = "empty"]
        ELSE [NoReturn EXCEPT
                 !.kind = "extracted",
                 !.features = [i \in 1..Len(post) |->
                                  IF row_raises(post[i]) THEN nan_record(post[i])
                                  ELSE feature_record(post[i], ffc, rel)],
                 !.front_knee_angles = concat_entries(post, TRUE),
                 !.back_knee_angles = concat_entries(post, FALSE)]

(***************************************************************************)
(* analyze_front_knee_phases, analyze_back_knee_phases                     *)
(* Both return the 7-tuple (contact angle, max flexion angle, max          *)
(* extension angle, contact frame, max flexion frame, max extension frame, *)
(* deviation); a series is a sequence of <<frame, angle>>.                 *)
(***************************************************************************)
\* [(frame, angle) for frame, angle in series if not np.isnan(angle)]
valid_angles(series) == SelectSeq(series, LAMBDA e : ~isnan(e[2]))

\* np.argmin(angles[start:]) + start and np.argmax(angles[start:]) + start,
\* 0-based: the first position from start on that holds the extreme
argmin_mut(v, start) ==
    CHOOSE k \in start..(Len(v) - 1) :
        \A j \in start..(Len(v) - 1) :
            v[j + 1][2] < v[k + 1][2] \/ (v[j + 1][2] = v[k + 1][2] /\ j >= k)

argmin(v, start) ==
    CHOOSE k \in start..(Len(v) - 1) :
        \A j \in start..(Len(v) - 1) :
            v[j + 1][2] > v[k + 1][2] \/ (v[j + 1][2] = v[k + 1][2] /\ j >= k)

argmax(v, start) ==
    CHOOSE k \in start..(Len(v) - 1) :
        \A j \in start..(Len(v) - 1) :
            v[j + 1][2] < v[k + 1][2] \/ (v[j + 1][2] = v[k + 1][2] /\ j >= k)

\* max_extension_angle - contact angle if neither is nan else nan
deviation_mut(ext, contact) == IF isnan(contact) \/ isnan(ext) THEN NaN ELSE contact - ext

deviation(ext, contact) == IF isnan(contact) \/ isnan(ext) THEN NaN ELSE ext - contact

\* latter_half_start = len(angles) // 2
latter_half_start_mut(v) == 0

latter_half_start(v) == Len(v) \div 2

\* the 7-tuple for a non-empty filtered series whose maximum extension is
\* searched from position start on
phases(v, start) ==
    LET flex == argmin(v, 0)
        ext == argmax(v, start)
    IN  <<v[1][2], v[flex + 1][2], v[ext + 1][2],
          v[1][1], v[flex + 1][1], v[ext + 1][1],
          deviation(v[ext + 1][2], v[1][2])>>

analyze_front_knee_phases(front_knee_angles) ==
    IF front_knee_angles = <<>> THEN NoPhases
    ELSE LET v == valid_angles(front_knee_angles)
         IN  IF v = <<>> THEN NoPhases ELSE phases(v, 0)

analyze_back_knee_phases(back_knee_angles_list) ==
    IF back_knee_angles_list = <<>> THEN NoPhases
    ELSE LET v == valid_angles(back_knee_angles_list)
         IN  IF v = <<>> THEN NoPhases ELSE phases(v, latter_half_start(v))

(***************************************************************************)
(* calculate_biomechanical_summary                                         *)
(***************************************************************************)
\* post_ffc_features[post_ffc_features['is_ball_release'] == True], and
\* post_ffc_features.tail(3) when that selection is empty
release_frame_data_mut(feats) == feats

release_frame_data(feats) ==
    LET flagged == SelectSeq(feats, LAMBDA r : r["is_ball_release"] = TRUE)
    IN  IF flagged # <<>> THEN flagged
        ELSE SubSeq(feats, Len(feats) - Min(TailFrames, Len(feats)) + 1, Len(feats))

\* release_frame_data[column].dropna(), as the sequence of its values
dropna(window, column) ==
    LET col == [i \in 1..Len(window) |-> window[i][column]]
    IN  SelectSeq(col, LAMBDA v : ~isnan(v))

RECURSIVE Sum(_)
Sum(vals) == IF vals = <<>> THEN 0 ELSE Head(vals) + Sum(Tail(vals))

\* values.mean(), values.min(), values.max() of a non-empty series.  The
\* mean is the integer quotient, exact whenever the sum is a multiple of
\* the count (always so for a window of one frame).
mean(vals) == Sum(vals) \div Len(vals)

min(vals) == CHOOSE m \in {vals[i] : i \in 1..Len(vals)} : \A i \in 1..Len(vals) : m <= vals[i]

max(vals) == CHOOSE m \in {vals[i] : i \in 1..Len(vals)} : \A i \in 1..Len(vals) : m >= vals[i]

\* summary_data.append({...}) for a feature measured at ball release
stat_row(feature, vals, ffc, rel) ==
    [Feature |-> feature, Average |-> mean(vals), Min |-> min(vals), Max |-> max(vals),
     Frames |-> Len(vals), Measurement_Phase |-> "Ball Release",
     FFC_Frame |-> ffc, Release_Frame |-> rel]

\* the row of the else branch of the comprehensive features
empty_row(feature, ffc, rel) ==
    [Feature |-> feature, Average |-> NaN, Min |-> NaN, Max |-> NaN,
     Frames |-> 0, Measurement_Phase |-> "Ball Release",
     FFC_Frame |-> ffc, Release_Frame |-> rel]

\* Elbow Angle and Back Knee Angle: a row only if the window has a defined value
optional_stat_rows(feature, window, ffc, rel) ==
    LET vals == dropna(window, feature)
    IN  IF vals # <<>> THEN <<stat_row(feature, vals, ffc, rel)>> ELSE <<>>

\* the comprehensive features, in the order of the list in the source
comprehensive_features_mut ==
    <<"Hip-Shoulder Separation", "Trunk Lean", "Shoulder Alignment",
      "Bowling Arm Angle", "Non-Bowling Arm Angle", "Head Position",
      "Pelvis Rotation", "Front Ankle Angle", "Back Ankle Angle", "Spine Angle">>

comprehensive_features ==
    <<"Trunk Lean", "Hip-Shoulder Separation", "Shoulder Alignment",
      "Bowling Arm Angle", "Non-Bowling Arm Angle", "Head Position",
      "Pelvis Rotation", "Front Ankle Angle", "Back Ankle Angle", "Spine Angle">>

\* the loop over comprehensive_features: always one row per feature
comprehensive_rows(window, ffc, rel) ==
    [i \in 1..Len(comprehensive_features) |->
        LET vals == dropna(window, comprehensive_features[i])
        IN  IF vals # <<>> THEN stat_row(comprehensive_features[i], vals, ffc, rel)
            ELSE empty_row(comprehensive_features[i], ffc, rel)]

\* a phase-specific row: appended if its value is not None and not nan
phase_rows_mut(feature, value, label, ffc_ref, rel) ==
    <<[Feature |-> feature,
       Average |-> IF value # None /\ ~isnan(value) THEN value ELSE 0,
       Min |-> value, Max |-> value,
       Frames |-> 1, Measurement_Phase |-> label,
       FFC_Frame |-> ffc_ref, Release_Frame |-> rel]>>

phase_rows(feature, value, label, ffc_ref, rel) ==
    IF value # None /\ ~isnan(value)
    THEN <<[Feature |-> feature, Average |-> value, Min |-> value, Max |-> value,
            Frames |-> 1, Measurement_Phase |-> label,
            FFC_Frame |-> ffc_ref, Release_Frame |-> rel]>>
    ELSE <<>>

\* the FFC_Frame entry of the 'Front Knee at FFC' row: the local ffc_frame
\* returned by analyze_front_knee_phases, not self.ffc_frame
front_contact_ffc_ref(front, ffc) == front[4]

\* summary_data, in the order of the appends
summary_data(ex, ffc, rel) ==
    LET front == analyze_front_knee_phases(ex.front_knee_angles)
        back == analyze_back_knee_phases(ex.back_knee_angles)
        window == release_frame_data(ex.features)
    IN  optional_stat_rows("Elbow Angle", window, ffc, rel)
        \o phase_rows("Front Knee at FFC", front[1], "Front Foot Contact",
                      front_contact_ffc_ref(front, ffc), rel)
        \o phase_rows("Front Knee Max Flexion", front[2], "Maximum Flexion", ffc, rel)
        \o phase_rows("Front Knee Max Extension", front[3], "Maximum Extension", ffc, rel)
        \o phase_rows("Knee Angle Deviation", front[7], "FFC to Max Extension", ffc, rel)
        \o phase_rows("Back Knee at BFC", back[1], "Back Foot Contact", ffc, rel)
        \o phase_rows("Back Knee Max Flexion", back[2], "Back Maximum Flexion", ffc, rel)
        \o phase_rows("Back Knee Max Extension", back[3], "Back Maximum Extension", ffc, rel)
        \o phase_rows("Back Knee Deviation", back[7], "BFC to Max Extension", ffc, rel)
        \o optional_stat_rows("Back Knee Angle", window, ffc, rel)
        \o comprehensive_rows(window, ffc, rel)

\* The outcome of calculate_biomechanical_summary once FFC is known.  An
\* empty DataFrame returned by extract_features_post_ffc cannot be unpacked
\* into three names: the assignment raises ValueError.
calculate_biomechanical_summary(d, ffc, rel) ==
    LET ex == extract_features_post_ffc(d, ffc, rel)
    IN  IF ex.kind = "empty" THEN [raised |-> "ValueError", report |-> <<>>]
        ELSE [raised |-> NoError, report |-> summary_data(ex, ffc, rel)]

(***************************************************************************)
(* analyze_bowling (model/analyze.py)                                      *)
(***************************************************************************)
\* str(e) of the exceptions the extractor raises
exception_text(e) ==
    CASE e = "IndexError" -> "single positional indexer is out-of-bounds"
      [] e = "ValueError" -> "not enough values to unpack (expected 3, got 0)"
      [] e = "AttributeError" -> "'str' object has no attribute 'iterrows'"

\* EnhancedCricketBiomechanicsExtractor(d).calculate_biomechanical_summary()
\* on a freshly constructed extractor, whose ffc_frame is None: event
\* detection runs first.
fresh_summary(d) ==
    LET r == detect_front_foot_contact(d)
    IN  IF r.raised # NoError THEN [raised |-> r.raised, report |-> <<>>]
        ELSE calculate_biomechanical_summary(d, r.ffc_frame, r.ball_release_frame)

\* The body of the try statement.  A str argument is stored as self.df by
\* the constructor, and self.df.iterrows() of event detection raises
\* AttributeError.
analyzed(kind, d) ==
    IF kind = "str" THEN [raised |-> "AttributeError", report |-> <<>>]
    ELSE fresh_summary(d)

\* the mapping analyze_bowling returns
analyze_bowling_mut(kind, d) ==
    LET out == analyzed(kind, d)
    IN  [NoReturn EXCEPT !.kind = "result", !.status = "success",
                         !.message = "Video analyzed successfully",
                         !.report = out.report]

analyze_bowling(kind, d) ==
    LET out == analyzed(kind, d)
    IN  IF out.raised = NoError
        THEN [NoReturn EXCEPT !.kind = "result", !.status = "success",
                              !.message = "Video analyzed successfully",
                              !.report = out.report]
        ELSE [NoReturn EXCEPT !.kind = "result", !.status = "error",
                              !.message = exception_text(out.raised)]

(***************************************************************************)
(* Inputs.                                                                 *)
(***************************************************************************)
\* The 'frame' column: strictly increasing, contiguous from 0 or every
\* second frame from 3.  An indexing is <<first frame, stride>>.
FrameIndexings == {<<0, 1>>, <<3, 2>>}

frame_of(ix, i) == ix[1] + ix[2] * (i - 1)

\* Values of RIGHT_ANKLE_y in the event-detection specification.
AnkleSamples == {5, 7}

\* The DataFrame with n rows that carries only the 'frame' and RIGHT_ANKLE
\* columns: the ankle was detected in the rows of DOMAIN a, at height a[i].
AnkleFrame(n, a, ix) ==
    [i \in 1..n |->
        [frame |-> frame_of(ix, i),
         lm |-> [l \in {"RIGHT_ANKLE"} |->
                    IF i \in DOMAIN a THEN <<1, a[i]>> ELSE <<NaN, NaN>>]]]

\* Landmark cells of one frame, all landmarks detected: an upright figure
\* with both legs straight, the right arm straight and the left arm bent.
BasePose ==
    [l \in Landmarks |->
        CASE l = "NOSE" -> <<0, 0>>
          [] l = "LEFT_SHOULDER" -> <<-1, 1>>
          [] l = "RIGHT_SHOULDER" -> <<1, 1>>
          [] l = "LEFT_ELBOW" -> <<-2, 2>>
          [] l = "RIGHT_ELBOW" -> <<2, 2>>
          [] l = "LEFT_WRIST" -> <<-2, 3>>
          [] l = "RIGHT_WRIST" -> <<3, 3>>
          [] l = "LEFT_HIP" -> <<-1, 3>>
          [] l = "RIGHT_HIP" -> <<1, 3>>
          [] l = "LEFT_KNEE" -> <<-1, 5>>
          [] l = "RIGHT_KNEE" -> <<1, 5>>
          [] l = "LEFT_ANKLE" -> <<-1, 7>>
          [] l = "RIGHT_ANKLE" -> <<1, 7>>
          [] l = "LEFT_FOOT_INDEX" -> <<-2, 7>>
          [] l = "RIGHT_FOOT_INDEX" -> <<2, 7>>]

Undetected == <<NaN, NaN>>

\* The frames the pipeline specification draws its rows from:
\*  1 the base pose (knees 180, ankle height 7);
\*  2 front knee 135, back knee 90, right arm bent, ankle height 7;
\*  3 front knee 90, back knee 135, ankle height 5;
\*  4 right ankle on the right knee (zero-length shank: front knee and front
\*    ankle angles are nan although the ankle height 5 is defined), right
\*    elbow not detected;
\*  5 right ankle and left knee not detected;
\*  6 nothing detected.
Poses ==
    <<BasePose,
      [BasePose EXCEPT !["RIGHT_ANKLE"] = <<3, 7>>, !["RIGHT_FOOT_INDEX"] = <<4, 7>>,
                       !["LEFT_ANKLE"] = <<-3, 5>>, !["LEFT_FOOT_INDEX"] = <<-4, 5>>,
                       !["RIGHT_WRIST"] = <<2, 3>>],
      [BasePose EXCEPT !["RIGHT_ANKLE"] = <<3, 5>>, !["RIGHT_FOOT_INDEX"] = <<4, 5>>,
                       !["LEFT_ANKLE"] = <<-3, 7>>, !["LEFT_FOOT_INDEX"] = <<-4, 7>>],
      [BasePose EXCEPT !["RIGHT_ANKLE"] = <<1, 5>>, !["RIGHT_FOOT_INDEX"] = <<2, 5>>,
                       !["RIGHT_ELBOW"] = Undetected],
      [BasePose EXCEPT !["RIGHT_ANKLE"] = Undetected, !["LEFT_KNEE"] = Undetected],
      [l \in Landmarks |-> Undetected]>>

\* The column sets of the DataFrame: every landmark, or one landmark's
\* columns absent: NOSE, which the try block reads after both knee angles
\* were appended, or RIGHT_ANKLE, which it reads first and event detection
\* reads too.
ColumnSets == {Landmarks, Landmarks \ {"NOSE"}, Landmarks \ {"RIGHT_ANKLE"}}

\* The 'frame' column of the pipeline specification: every second frame
\* from 3, so that no frame index equals its position.
SparseIndexing == <<3, 2>>

\* The DataFrame with n rows over the columns cols whose row i shows pose
\* Poses[p[i]].
PoseFrame(n, p, cols, ix) ==
    [i \in 1..n |-> [frame |-> frame_of(ix, i),
                     lm |-> [l \in cols |-> Poses[p[i]][l]]]]

\* What analyze_bowling is called with: a DataFrame or a path string.
ArgumentKinds == {"DataFrame", "str"}

\* Knee angles of the series handed directly to the phase analysers.
AngleSamples == {NaN, 90 * Deg, 160 * Deg, 170 * Deg}

(***************************************************************************)
(* State after EnhancedCricketBiomechanicsExtractor.__init__               *)
(***************************************************************************)
Constructed ==
    /\ features = <<>>
    /\ ffc_frame = None
    /\ ball_release_frame = None
    /\ called = "__init__"
    /\ arg = <<>>
    /\ ret = NoReturn
    /\ raised = NoError
    /\ video_path = ""

InitDetect ==
    /\ \E n \in 0..MaxDetectLen, ix \in FrameIndexings :
           \E S \in {T \in SUBSET (1..n) : Cardinality(T) <= MaxDetected} :
               \E a \in [S -> AnkleSamples] : df = AnkleFrame(n, a, ix)
    /\ Constructed

(***************************************************************************)
(* Actions: one per method call.                                           *)
(***************************************************************************)
DetectFrontFootContact ==
    LET r == detect_front_foot_contact(df)
    IN  /\ ffc_frame' = IF r.raised = NoError THEN r.ffc_frame ELSE ffc_frame
        /\ ball_release_frame' =
               IF r.raised = NoError THEN r.ball_release_frame ELSE ball_release_frame
        /\ called' = "detect_front_foot_contact"
        /\ arg' = <<>>
        /\ ret' = NoReturn
        /\ raised' = r.raised
        /\ UNCHANGED <<df, features, video_path>>

\* extract_features_post_ffc(): detects FFC first if it is not known yet
ExtractFeaturesPostFfc ==
    LET r == IF ffc_frame = None THEN detect_front_foot_contact(df)
             ELSE [ffc_frame |-> ffc_frame, ball_release_frame |-> ball_release_frame,
                   raised |-> NoError]
    IN  /\ called' = "extract_features_post_ffc"
        /\ arg' = <<>>
        /\ raised' = r.raised
        /\ IF r.raised # NoError
           THEN /\ ret' = NoReturn
                /\ UNCHANGED <<ffc_frame, ball_release_frame>>
           ELSE /\ ffc_frame' = r.ffc_frame
                /\ ball_release_frame' = r.ball_release_frame
                /\ ret' = extract_features_post_ffc(df, r.ffc_frame, r.ball_release_frame)
        /\ UNCHANGED <<df, features, video_path>>

\* calculate_biomechanical_summary(): the whole pipeline
CalculateBiomechanicalSummary ==
    LET r == IF ffc_frame = None THEN detect_front_foot_contact(df)
             ELSE [ffc_frame |-> ffc_frame, ball_release_frame |-> ball_release_frame,
                   raised |-> NoError]
    IN  /\ called' = "calculate_biomechanical_summary"
        /\ arg' = <<>>
        /\ IF r.raised # NoError
           THEN /\ raised' = r.raised
                /\ ret' = NoReturn
                /\ UNCHANGED <<ffc_frame, ball_release_frame>>
           ELSE LET out == calculate_biomechanical_summary(
                               df, r.ffc_frame, r.ball_release_frame)
                IN  /\ ffc_frame' = r.ffc_frame
                    /\ ball_release_frame' = r.ball_release_frame
                    /\ raised' = out.raised
                    /\ ret' = IF out.raised = NoError
                              THEN [NoReturn EXCEPT !.kind = "report", !.report = out.report]
                              ELSE NoReturn
        /\ UNCHANGED <<df, features, video_path>>

\* analyze_front_knee_phases(series) and analyze_back_knee_phases(series),
\* called on a series of the caller's choice
AnalyzeFrontKneePhases ==
    /\ called' = "analyze_front_knee_phases"
    /\ ret' = [NoReturn EXCEPT !.kind = "phases", !.phases = analyze_front_knee_phases(arg)]
    /\ raised' = NoError
    /\ UNCHANGED <<df, features, ffc_frame, ball_release_frame, arg, video_path>>

AnalyzeBackKneePhases ==
    /\ called' = "analyze_back_knee_phases"
    /\ ret' = [NoReturn EXCEPT !.kind = "phases", !.phases = analyze_back_knee_phases(arg)]
    /\ raised' = NoError
    /\ UNCHANGED <<df, features, ffc_frame, ball_release_frame, arg, video_path>>

\* analyze_bowling(video_path): the argument is either a landmarks
\* DataFrame, the one in df, or a file path as upload() of app.py passes
\* it.  The extractor it constructs is local to the call.
AnalyzeBowling ==
    \E kind \in ArgumentKinds :
        /\ video_path' = kind
        /\ called' = "analyze_bowling"
        /\ arg' = <<>>
        /\ ret' = analyze_bowling(kind, df)
        /\ raised' = NoError
        /\ UNCHANGED <<df, features, ffc_frame, ball_release_frame>>

Init ==
    /\ \E n \in 0..MaxLen, cols \in ColumnSets :
           \E p \in [1..n -> 1..Len(Poses)] : df = PoseFrame(n, p, cols, SparseIndexing)
    /\ Constructed

\* a constructed extractor and a knee-angle series <<frame, angle>> to analyse
InitPhases ==
    /\ df = <<>>
    /\ features = <<>>
    /\ ffc_frame = None
    /\ ball_release_frame = None
    /\ called = "__init__"
    /\ ret = NoReturn
    /\ raised = NoError
    /\ video_path = ""
    /\ \E n \in 0..MaxSeries :
           \E a \in [1..n -> AngleSamples] : arg = [i \in 1..n |-> <<i, a[i]>>]

Next ==
    \/ DetectFrontFootContact
    \/ ExtractFeaturesPostFfc
    \/ CalculateBiomechanicalSummary

Spec == Init /\ [][Next]_vars

NextPhases ==
    \/ AnalyzeFrontKneePhases
    \/ AnalyzeBackKneePhases

SpecPhases == InitPhases /\ [][NextPhases]_vars

NextDetect == DetectFrontFootContact

SpecDetect == InitDetect /\ [][NextDetect]_vars

NextAnalyze == AnalyzeBowling

SpecAnalyze == Init /\ [][NextAnalyze]_vars

(***************************************************************************)
(* Vocabulary of the properties, read off the DataFrame cells directly.    *)
(***************************************************************************)
\* RIGHT_ANKLE_y of the row at 0-based position k, NaN if the column is absent
AnkleAt(k) ==
    IF "RIGHT_ANKLE" \in DOMAIN df[k + 1].lm THEN df[k + 1].lm["RIGHT_ANKLE"][2] ELSE NaN

\* the 0-based positions of df, and those with a defined ankle value
Positions == 0..(Len(df) - 1)

DetectedAt == {k \in Positions : AnkleAt(k) # NaN}

FrameAt(k) == df[k + 1].frame

LastFrame == df[Len(df)].frame

\* detect_front_foot_contact has run and returned
Detected == called = "detect_front_foot_contact" /\ raised = NoError

(***************************************************************************)
(* C1: after detect_front_foot_contact on a non-empty sequence with        *)
(* strictly increasing frame indices, the ball-release frame index is at   *)
(* least the FFC frame index and at most the last frame index.             *)
(***************************************************************************)
C1_ReleaseBetweenFfcAndLast ==
    (Detected /\ Len(df) > 0) =>
        /\ ffc_frame <= ball_release_frame
        /\ ball_release_frame <= LastFrame

\* a detection whose release lies strictly between FFC and the last frame
C1_Witness ==
    /\ Detected
    /\ Len(df) > 0
    /\ ffc_frame < ball_release_frame
    /\ ball_release_frame < LastFrame

(***************************************************************************)
(* C2: FFC is a frame whose RIGHT_ANKLE_y is the maximum among the frames  *)
(* with a defined value; when exactly one frame has a defined value, FFC   *)
(* is that frame, wherever it stands.                                      *)
(***************************************************************************)
C2_FfcIsMaxAnkle ==
    (Detected /\ DetectedAt # {}) =>
        /\ \E k \in DetectedAt :
               /\ ffc_frame = FrameAt(k)
               /\ \A j \in DetectedAt : AnkleAt(j) <= AnkleAt(k)
        /\ \A k \in DetectedAt : DetectedAt = {k} => ffc_frame = FrameAt(k)

\* the ankle is lower in a later frame than in an earlier one, and FFC is
\* that later frame
C2_Witness ==
    /\ Detected
    /\ \E j, k \in DetectedAt :
           j < k /\ AnkleAt(j) < AnkleAt(k) /\ ffc_frame = FrameAt(k)

(***************************************************************************)
(* C4 as stated: with FFC detected from ankle data, the release frame is   *)
(* the one 8 positions after FFC clamped to the last frame, and it equals  *)
(* FFC whenever 0 or 1 frame follows FFC.                                  *)
(***************************************************************************)
C4_Original ==
    (Detected /\ DetectedAt # {}) =>
        \A k \in Positions : FrameAt(k) = ffc_frame =>
            /\ ball_release_frame = FrameAt(Min(k + ReleaseOffset, Len(df) - 1))
            /\ (Len(df) - 1 - k < 2 => ball_release_frame = ffc_frame)

(***************************************************************************)
(* C4 amended: with FFC detected from ankle data, the release frame is the *)
(* one 8 positions after FFC clamped to the last frame; it equals FFC      *)
(* exactly when no frame follows FFC.                                      *)
(***************************************************************************)
C4_ReleaseIsFfcPlus8Clamped ==
    (Detected /\ DetectedAt # {}) =>
        \A k \in Positions : FrameAt(k) = ffc_frame =>
            /\ ball_release_frame = FrameAt(Min(k + ReleaseOffset, Len(df) - 1))
            /\ (ball_release_frame = ffc_frame <=> k = Len(df) - 1)

\* exactly one frame follows FFC, and the release is that frame
C4_Witness ==
    /\ Detected
    /\ DetectedAt # {}
    /\ Len(df) >= 2
    /\ ffc_frame = FrameAt(Len(df) - 2)
    /\ ball_release_frame = LastFrame

(***************************************************************************)
(* C10: on a non-empty sequence whose right-ankle values are all           *)
(* undefined, FFC is the frame at position len // 2 and the release is the *)
(* frame at position min(len // 2 + 5, len - 1).                           *)
(***************************************************************************)
C10_MidpointFallback ==
    (Detected /\ Len(df) > 0 /\ DetectedAt = {}) =>
        /\ ffc_frame = FrameAt(Len(df) \div 2)
        /\ ball_release_frame =
               FrameAt(Min(Len(df) \div 2 + FallbackOffset, Len(df) - 1))

\* the fallback on a sequence long enough for midpoint + 5 not to be clamped
C10_Witness ==
    /\ Detected
    /\ DetectedAt = {}
    /\ Len(df) \div 2 + FallbackOffset < Len(df) - 1
    /\ ball_release_frame < LastFrame

(***************************************************************************)
(* Vocabulary of the report properties.                                    *)
(***************************************************************************)
\* calculate_biomechanical_summary has run and returned a report
Summarised == called = "calculate_biomechanical_summary" /\ raised = NoError

Report == ret.report

\* the positions of the rows of the report that carry feature f
RowsOf(f) == {i \in 1..Len(Report) : Report[i].Feature = f}

\* the single-value-series catalog of the specification
SeriesCatalog ==
    <<"Elbow Angle", "Back Knee Angle", "Trunk Lean", "Hip-Shoulder Separation",
      "Shoulder Alignment", "Bowling Arm Angle", "Non-Bowling Arm Angle",
      "Head Position", "Pelvis Rotation", "Front Ankle Angle", "Back Ankle Angle",
      "Spine Angle">>

\* the phase-specific rows, front knee then back knee
PhaseCatalog ==
    <<"Front Knee at FFC", "Front Knee Max Flexion", "Front Knee Max Extension",
      "Knee Angle Deviation", "Back Knee at BFC", "Back Knee Max Flexion",
      "Back Knee Max Extension", "Back Knee Deviation">>

\* the position of feature f in the catalog order cat (0 if it is not in it)
RankIn(cat, f) ==
    IF \E i \in 1..Len(cat) : cat[i] = f
    THEN CHOOSE i \in 1..Len(cat) : cat[i] = f
    ELSE 0

\* the rows of the report follow the catalog order cat
FollowsOrder(cat) ==
    /\ \A i \in 1..Len(Report) : RankIn(cat, Report[i].Feature) > 0
    /\ \A i, j \in 1..Len(Report) :
           i < j => RankIn(cat, Report[i].Feature) < RankIn(cat, Report[j].Feature)

(***************************************************************************)
(* C3 as stated: on an empty sequence neither event detection nor          *)
(* calculate_biomechanical_summary raises; the events stay undefined and   *)
(* the summary returns the empty report.                                   *)
(***************************************************************************)
C3_EmptySequenceNeverRaises ==
    (Len(df) = 0 /\ called \in {"detect_front_foot_contact",
                                "calculate_biomechanical_summary"}) =>
        /\ raised = NoError
        /\ ffc_frame = None
        /\ ball_release_frame = None
        /\ (called = "calculate_biomechanical_summary" =>
               ret.kind = "report" /\ Report = <<>>)

(***************************************************************************)
(* C5 as stated: the report on a non-empty sequence has a row for every    *)
(* feature of the single-value-series catalog; a feature without a defined *)
(* value in the release window has its row with Average, Min and Max       *)
(* undefined and Frames = 0.                                               *)
(***************************************************************************)
C5_CatalogRowsAlwaysPresent ==
    (Summarised /\ Len(df) > 0) =>
        \A k \in 1..Len(SeriesCatalog) : RowsOf(SeriesCatalog[k]) # {}

(***************************************************************************)
(* C6 as stated: the rows follow the order Elbow Angle, Back Knee Angle,   *)
(* the ten comprehensive features, then the front-knee and back-knee phase *)
(* rows.                                                                   *)
(***************************************************************************)
C6_Original == Summarised => FollowsOrder(SeriesCatalog \o PhaseCatalog)

(***************************************************************************)
(* C6 amended: the rows follow one fixed order for every input: Elbow      *)
(* Angle, the front-knee phase rows, the back-knee phase rows, Back Knee   *)
(* Angle, then the ten comprehensive features; the relative order of two   *)
(* rows never depends on the input values.                                 *)
(***************************************************************************)
C6_FixedRowOrder ==
    Summarised =>
        FollowsOrder(<<"Elbow Angle">> \o PhaseCatalog \o Tail(SeriesCatalog))

\* a report that holds every row of the catalog
C6_Witness ==
    /\ Summarised
    /\ Len(Report) = Len(SeriesCatalog) + Len(PhaseCatalog)

(***************************************************************************)
(* C7 as stated: every row of the report carries the FFC frame index and   *)
(* the ball-release frame index of event detection.                        *)
(***************************************************************************)
C7_RowsCarryGlobalEvents ==
    Summarised =>
        \A i \in 1..Len(Report) :
            /\ Report[i].FFC_Frame = ffc_frame
            /\ Report[i].Release_Frame = ball_release_frame

(***************************************************************************)
(* Vocabulary of the phase properties: the series passed in is arg, a      *)
(* sequence of <<frame, angle>> whose frames are all different.            *)
(***************************************************************************)
\* the 0-based positions of arg whose angle is defined
DefinedIn == {k \in 0..(Len(arg) - 1) : arg[k + 1][2] # NaN}

\* the position in arg of the entry with frame f
PositionOf(f) == CHOOSE k \in 0..(Len(arg) - 1) : arg[k + 1][1] = f

\* the number of defined entries of arg before position k
DefinedBefore(k) == Cardinality({j \in DefinedIn : j < k})

AnalysedFront == called = "analyze_front_knee_phases" /\ raised = NoError

AnalysedBack == called = "analyze_back_knee_phases" /\ raised = NoError

(***************************************************************************)
(* C8 as stated: for a back-knee series with at least 2 defined entries,   *)
(* the Max Extension entry never lies in the first half (positions below   *)
(* len // 2) of the input series, undefined entries counted.               *)
(***************************************************************************)
C8_Original ==
    (AnalysedBack /\ Cardinality(DefinedIn) >= 2) =>
        PositionOf(ret.phases[6]) >= Len(arg) \div 2

(***************************************************************************)
(* C8 amended: for a back-knee series with at least 2 defined entries, the *)
(* Max Extension entry never lies in the first half of the filtered series *)
(* (the defined entries in their order): at least n // 2 defined entries   *)
(* precede it, n being the number of defined entries.                      *)
(***************************************************************************)
C8_MaxExtensionInLatterHalfOfFiltered ==
    (AnalysedBack /\ Cardinality(DefinedIn) >= 2) =>
        /\ PositionOf(ret.phases[6]) \in DefinedIn
        /\ DefinedBefore(PositionOf(ret.phases[6])) >= Cardinality(DefinedIn) \div 2

\* the largest angle of the series stands in the first half of the defined
\* entries, and the entry returned is another, smaller one
C8_Witness ==
    /\ AnalysedBack
    /\ Cardinality(DefinedIn) >= 2
    /\ \E k \in DefinedIn :
           /\ DefinedBefore(k) < Cardinality(DefinedIn) \div 2
           /\ arg[k + 1][2] > ret.phases[3]

(***************************************************************************)
(* C9: analyze_front_knee_phases discards the undefined entries and        *)
(* returns Contact = the first remaining entry, MaxFlexion = the entry of  *)
(* minimum angle, MaxExtension = the entry of maximum angle over all       *)
(* remaining entries, each with the frame of that entry, and Deviation =   *)
(* MaxExtension - Contact; [160@1, 90@2, 170@3] gives 160@1, 90@2, 170@3   *)
(* and deviation 10.                                                       *)
(***************************************************************************)
C9_FrontKneePhases ==
    (AnalysedFront /\ DefinedIn # {}) =>
        LET p == ret.phases
        IN  /\ \E k \in DefinedIn :
                   /\ \A j \in DefinedIn : k <= j
                   /\ p[1] = arg[k + 1][2]
                   /\ p[4] = arg[k + 1][1]
            /\ \E k \in DefinedIn :
                   /\ \A j \in DefinedIn : arg[k + 1][2] <= arg[j + 1][2]
                   /\ p[2] = arg[k + 1][2]
                   /\ p[5] = arg[k + 1][1]
            /\ \E k \in DefinedIn :
                   /\ \A j \in DefinedIn : arg[k + 1][2] >= arg[j + 1][2]
                   /\ p[3] = arg[k + 1][2]
                   /\ p[6] = arg[k + 1][1]
            /\ p[7] = p[3] - p[1]
            /\ (arg = <<<<1, 160 * Deg>>, <<2, 90 * Deg>>, <<3, 170 * Deg>>>> =>
                   p = <<160 * Deg, 90 * Deg, 170 * Deg, 1, 2, 3, 10 * Deg>>)

\* the scenario of the specification, analysed
C9_Witness ==
    /\ AnalysedFront
    /\ arg = <<<<1, 160 * Deg>>, <<2, 90 * Deg>>, <<3, 170 * Deg>>>>
    /\ ret.phases[7] = 10 * Deg

(***************************************************************************)
(* Vocabulary of the extraction properties.                                *)
(***************************************************************************)
\* extract_features_post_ffc has run and returned its triple
Extracted ==
    called = "extract_features_post_ffc" /\ raised = NoError /\ ret.kind = "extracted"

\* the rows of df at or after FFC, in their order
RowsFromFfc == SelectSeq(df, LAMBDA row : row.frame >= ffc_frame)

\* the landmarks of a row whose columns exist and whose cells are defined
PresentIn(row) ==
    {l \in DOMAIN row.lm : row.lm[l][1] # NaN /\ row.lm[l][2] # NaN}

(***************************************************************************)
(* C11 as stated: a landmark missing for a frame makes undefined only the  *)
(* features of that frame that require it.  Every frame at or after FFC    *)
(* has its record, and in it every feature whose own landmarks are all     *)
(* present carries the value computed from them.                           *)
(***************************************************************************)
C11_MissingLandmarkIsLocal ==
    Extracted =>
        /\ Len(ret.features) = Len(RowsFromFfc)
        /\ \A i \in 1..Len(RowsFromFfc) :
               /\ ret.features[i]["frame"] = RowsFromFfc[i].frame
               /\ \A f \in FeatureNames :
                      Requires(f) \subseteq PresentIn(RowsFromFfc[i]) =>
                          ret.features[i][f] = feature_value(RowsFromFfc[i], f)

(***************************************************************************)
(* Vocabulary of the phase rows of the report, read off the DataFrame.     *)
(***************************************************************************)
\* the knee angle of a row, from its cells
KneeAngleOf(row, hip, knee, ankle) ==
    calculate_angle(row.lm[hip], row.lm[knee], row.lm[ankle])

\* Some frame at or after FFC contributes a defined front-knee angle to the
\* series: its three right-leg landmarks have columns and span an angle.
FrontKneeDefined ==
    \E i \in 1..Len(RowsFromFfc) :
        /\ {"RIGHT_HIP", "RIGHT_KNEE", "RIGHT_ANKLE"} \subseteq DOMAIN RowsFromFfc[i].lm
        /\ KneeAngleOf(RowsFromFfc[i], "RIGHT_HIP", "RIGHT_KNEE", "RIGHT_ANKLE") # NaN

\* The same for the back knee, whose angle joins the series only after the
\* front-knee and elbow columns were read.
BackKneeDefined ==
    \E i \in 1..Len(RowsFromFfc) :
        /\ {"RIGHT_HIP", "RIGHT_KNEE", "RIGHT_ANKLE", "RIGHT_SHOULDER", "RIGHT_ELBOW",
            "RIGHT_WRIST", "LEFT_HIP", "LEFT_KNEE", "LEFT_ANKLE"}
               \subseteq DOMAIN RowsFromFfc[i].lm
        /\ KneeAngleOf(RowsFromFfc[i], "LEFT_HIP", "LEFT_KNEE", "LEFT_ANKLE") # NaN

FrontPhaseRows == {PhaseCatalog[k] : k \in 1..4}

BackPhaseRows == {PhaseCatalog[k] : k \in 5..8}

(***************************************************************************)
(* C12: a phase-specific row is in the report if and only if its value is  *)
(* defined.  A leg whose filtered knee-angle series is empty has none of   *)
(* its four phase rows; a leg with a defined knee angle has each of them   *)
(* exactly once, over one frame and with a defined value.                  *)
(***************************************************************************)
C12_PhaseRowsIffDefined ==
    Summarised =>
        /\ \A f \in FrontPhaseRows :
               Cardinality(RowsOf(f)) = IF FrontKneeDefined THEN 1 ELSE 0
        /\ \A f \in BackPhaseRows :
               Cardinality(RowsOf(f)) = IF BackKneeDefined THEN 1 ELSE 0
        /\ \A i \in 1..Len(Report) :
               Report[i].Feature \in FrontPhaseRows \cup BackPhaseRows =>
                   /\ Report[i].Average \notin {NaN, None}
                   /\ Report[i].Frames = 1

\* a report on frames whose front knee never spans an angle while the back
\* knee does: the back-knee rows are there, the front-knee rows are not
C12_Witness ==
    /\ Summarised
    /\ ~FrontKneeDefined
    /\ BackKneeDefined
    /\ RowsOf("Back Knee Deviation") # {}
    /\ RowsOf("Knee Angle Deviation") = {}

(***************************************************************************)
(* C13 as stated: on a non-empty sequence extract_features_post_ffc        *)
(* outputs exactly one record for each frame at or after FFC and none for  *)
(* an earlier frame; exactly one record has is_ffc true, the one of the    *)
(* FFC frame, and exactly one has is_ball_release true, the one of the     *)
(* ball-release frame, also when landmarks are missing.                    *)
(***************************************************************************)
C13_OneRecordPerFrameOneFlagEach ==
    (Extracted /\ Len(df) > 0) =>
        LET recs == ret.features
            flagged(flag) == {i \in 1..Len(recs) : recs[i][flag] = TRUE}
        IN  /\ Len(recs) = Len(RowsFromFfc)
            /\ \A i \in 1..Len(recs) : recs[i]["frame"] = RowsFromFfc[i].frame
            /\ Cardinality(flagged("is_ffc")) = 1
            /\ \A i \in flagged("is_ffc") : recs[i]["frame"] = ffc_frame
            /\ Cardinality(flagged("is_ball_release")) = 1
            /\ \A i \in flagged("is_ball_release") : recs[i]["frame"] = ball_release_frame

(***************************************************************************)
(* Vocabulary of the release window.                                       *)
(***************************************************************************)
\* the records extract_features_post_ffc produces for the detected events
Records == extract_features_post_ffc(df, ffc_frame, ball_release_frame).features

\* the positions of the records flagged is_ball_release
FlaggedRelease(recs) == {i \in 1..Len(recs) : recs[i]["is_ball_release"] = TRUE}

\* the positions of the last three records, all of them when fewer exist
LastThree(recs) == {i \in 1..Len(recs) : i > Len(recs) - 3}

\* the release window as the claim defines it
ReleaseWindow(recs) ==
    IF FlaggedRelease(recs) # {} THEN FlaggedRelease(recs) ELSE LastThree(recs)

RECURSIVE SumOver(_, _, _)
\* the sum of feature f over the records at the positions I
SumOver(recs, I, f) ==
    IF I = {} THEN 0
    ELSE LET i == CHOOSE j \in I : TRUE
         IN  recs[i][f] + SumOver(recs, I \ {i}, f)

C15_AnalyzeBowlingNeverRaises ==
    called = "analyze_bowling" =>
        /\ raised = NoError
        /\ ret.kind = "result"
        /\ video_path = "str" =>
               /\ ret.status = "error"
               /\ ret.message = "'str' object has no attribute 'iterrows'"
        /\ (video_path = "DataFrame" /\ Len(df) = 0) =>
               /\ ret.status = "error"
               /\ ret.message = "single positional indexer is out-of-bounds"
        /\ (video_path = "DataFrame" /\ Len(df) > 0) =>
               /\ ret.status = "success"
               /\ ret.report = fresh_summary(df).report
               /\ Len(ret.report) >= Len(comprehensive_features)

\* the IndexError of an empty DataFrame, caught and reported
C15_Witness ==
    /\ called = "analyze_bowling"
    /\ video_path = "DataFrame"
    /\ Len(df) = 0
    /\ raised = NoError
    /\ ret.status = "error"

(***************************************************************************)
(* C16: for a front-knee series with a defined entry,                      *)
(* analyze_front_knee_phases returns MaxFlexion <= Contact <= MaxExtension *)
(* and a Deviation that is not negative.  For a back-knee series only      *)
(* MaxFlexion <= Contact and MaxFlexion <= MaxExtension hold; its          *)
(* Deviation can be negative, as the state of C16_Witness shows.           *)
(***************************************************************************)
C16_PhaseValueOrder ==
    /\ (AnalysedFront /\ DefinedIn # {}) =>
           /\ ret.phases[2] <= ret.phases[1]
           /\ ret.phases[1] <= ret.phases[3]
           /\ ret.phases[7] >= 0
    /\ (AnalysedBack /\ DefinedIn # {}) =>
           /\ ret.phases[2] <= ret.phases[1]
           /\ ret.phases[2] <= ret.phases[3]

\* a back-knee series whose Max Extension, taken from the second half of
\* the defined entries, is below its Contact: the Deviation is negative
C16_Witness ==
    /\ AnalysedBack
    /\ DefinedIn # {}
    /\ ret.phases[3] < ret.phases[1]
    /\ ret.phases[7] < 0

=============================================================================
